---- MODULE Spec2Model ----
(***************************************************************************)
(* Flood-risk demo application.                                            *)
(*   server.ts : POST /api/predict and GET /api/environmental-data         *)
(*   App (dashboard UI): fetchAutoData, handleEnableLocation, mount        *)
(*   effect, handleSearch, handlePredict                                   *)
(*                                                                         *)
(* JavaScript values are records [t, s, n]: t is the type tag, s the       *)
(* characters of a string (a sequence of one-character strings), n the     *)
(* value of a number in hundredths (fixed point, Scale units per 1).       *)
(* The classifier library, the upstream HTTP services, Math.random and the *)
(* browser are the environment: their answers are chosen by \E.            *)
(***************************************************************************)
EXTENDS Integers, Sequences, FiniteSets, TLC

VARIABLES
    \* ---- server, POST /api/predict
    predictPc,      \* "idle" | "pending" | "responded"
    predictBody,    \* req.body of the request being served
    input,          \* the feature vector handed to the classifier
    rfProbability,  \* what rf.predictProbability did for this request
    predictRes,     \* the response sent: [status, body]
    \* ---- server, GET /api/environmental-data
    envPc,          \* "idle" | "pending" | "awaitWeather" | "awaitElevation" | "responded"
    envQuery,       \* req.query: [lat, lng]
    weatherAnswer,  \* what the precipitation call did
    elevationAnswer,\* what the elevation call did
    rainfall,       \* the handler's local `rainfall`
    altitude,       \* the handler's local `altitude`
    weatherCalls,   \* precipitation calls issued for this request
    elevationCalls, \* elevation calls issued for this request
    envSent,        \* responses sent for this request
    envRes,         \* the response sent: [status, body]
    \* ---- dashboard UI (App)
    mounted,        \* the mount effect has run
    geolocationSupported, \* "geolocation" in navigator
    location,       \* useState location: [lat, lng]
    searchQuery,    \* useState searchQuery
    inputs,         \* useState inputs: five strings
    result,         \* useState result: null or the body of a prediction response
    loading,        \* useState loading
    fetchingData,   \* useState fetchingData
    lastUpdated,    \* useState lastUpdated: null or the time it was set
    stored,         \* localStorage item "raute_hudra_last_loc"
    now,            \* Date.now(); a session is short against the hour it is compared with
    envInFlight,    \* fetchAutoData calls awaiting their response: [id, lat, lng]
    nextFetch,      \* id of the next fetchAutoData call
    predictInFlight,\* bodies of the handlePredict requests awaiting their response
    geoPending,     \* getCurrentPosition calls awaiting their callback
    searchPending,  \* handleSearch requests awaiting their response
    edits,          \* edits of the form made so far
    \* ---- history of the UI
    resolved,       \* geolocation or search has resolved a coordinate
    lastArrival,    \* the fetchAutoData call that completed last, what it applied,
                    \* and the drainage system selected when it completed
    untouched,      \* no environmental field was edited since the last arrival
    arrived,        \* ids of the fetchAutoData calls that completed
    lastPredict     \* how the last handlePredict request ended: "none" | "ok" | "failed"

serverPredictVars == <<predictPc, predictBody, input, rfProbability, predictRes>>
serverEnvVars == <<envPc, envQuery, weatherAnswer, elevationAnswer, rainfall, altitude,
                   weatherCalls, elevationCalls, envSent, envRes>>
uiVars == <<mounted, geolocationSupported, location, searchQuery, inputs, result,
            loading, fetchingData, lastUpdated, stored, now, envInFlight, nextFetch,
            predictInFlight, geoPending, searchPending, edits,
            resolved, lastArrival, untouched, arrived, lastPredict>>
vars == <<serverPredictVars, serverEnvVars, uiVars>>

-----------------------------------------------------------------------------
(* JavaScript values *)

Scale == 10 * 10

JS(t, s, n) == [t |-> t, s |-> s, n |-> n]
Undefined == JS("undefined", <<>>, 0)
Null      == JS("null", <<>>, 0)
NaN       == JS("NaN", <<>>, 0)
Str(s)    == JS("string", s, 0)
Num(n)    == JS("number", <<>>, n)
\* a member inherited from Object.prototype (constructor, toString, ...)
ProtoMember == JS("function", <<>>, 0)

\* ToBoolean
Truthy(v) ==
    CASE v.t = "undefined" -> FALSE
      [] v.t = "null"      -> FALSE
      [] v.t = "NaN"       -> FALSE
      [] v.t = "number"    -> v.n # 0
      [] v.t = "string"    -> v.s # <<>>
      [] OTHER             -> TRUE

\* a || b
Or(a, b) == IF Truthy(a) THEN a ELSE b

Abs(n) == IF n < 0 THEN -n ELSE n

RECURSIVE Pow10(_)
Pow10(k) == IF k <= 0 THEN 1 ELSE 10 * Pow10(k - 1)

Digits == <<"0", "1", "2", "3", "4", "5", "6", "7", "8", "9">>
IsDigit(c) == \E i \in 1..10 : Digits[i] = c
DigitVal(c) == (CHOOSE i \in 1..10 : Digits[i] = c) - 1

\* index after the run of digits of s that starts at i
RECURSIVE DigitsEnd(_, _)
DigitsEnd(s, i) ==
    IF i <= Len(s) /\ IsDigit(s[i]) THEN DigitsEnd(s, i + 1) ELSE i

\* value of the digits s[i..j-1]
RECURSIVE DigitsValue(_, _, _)
DigitsValue(s, i, j) ==
    IF j <= i THEN 0 ELSE 10 * DigitsValue(s, i, j - 1) + DigitVal(s[j - 1])

RECURSIVE TrimStart(_)
TrimStart(s) ==
    IF s # <<>> /\ s[1] = " " THEN TrimStart(Tail(s)) ELSE s

\* The longest prefix of t (no leading white space) that is a decimal
\* literal, [sign] digits [. digits] or [sign] . digits, as
\* [ok, neg, i0, i1, nFrac, end]: ok is FALSE when there is none, the integer
\* digits are t[i0..i1-1], nFrac fractional digits follow the point, and end
\* is the index after the prefix. (The strings of the model hold no exponent
\* and no "Infinity".)
DecimalPrefix(t) ==
    LET sgn   == IF t # <<>> /\ t[1] \in {"-", "+"} THEN 1 ELSE 0
        i0    == sgn + 1
        i1    == DigitsEnd(t, i0)
        dot   == i1 <= Len(t) /\ t[i1] = "."
        j1    == IF dot THEN DigitsEnd(t, i1 + 1) ELSE i1
        nFrac == IF dot THEN j1 - (i1 + 1) ELSE 0
    IN  [ok |-> (i1 - i0) + nFrac > 0, neg |-> t # <<>> /\ t[1] = "-",
         i0 |-> i0, i1 |-> i1, nFrac |-> nFrac, end |-> j1]

\* parseFloat of a string: leading white space is skipped, then the longest
\* decimal-literal prefix is the value, whatever follows it; no such prefix
\* is NaN. Fractional digits beyond the model's resolution are dropped.
ParseFloatStr(s) ==
    LET t    == TrimStart(s)
        p    == DecimalPrefix(t)
        kept == IF p.nFrac > 2 THEN 2 ELSE p.nFrac
        frac == DigitsValue(t, p.i1 + 1, p.i1 + 1 + kept) * Pow10(2 - kept)
        mag  == DigitsValue(t, p.i0, p.i1) * Scale + frac
    IN  IF ~p.ok THEN NaN ELSE Num(IF p.neg THEN -mag ELSE mag)

\* parseFloat(v): the argument is converted to a string first
ParseFloat(v) ==
    CASE v.t = "string" -> ParseFloatStr(v.s)
      [] v.t = "number" -> v
      [] OTHER          -> NaN

\* decimal digits of a natural number
RECURSIVE NatChars(_)
NatChars(n) ==
    IF n < 10 THEN <<Digits[n + 1]>>
    ELSE NatChars(n \div 10) \o <<Digits[(n % 10) + 1]>>

\* the d digits of q, zero padded on the left
RECURSIVE PadChars(_, _)
PadChars(q, d) ==
    IF d = 0 THEN <<>> ELSE PadChars(q \div 10, d - 1) \o <<Digits[(q % 10) + 1]>>

\* Number.prototype.toFixed(d) of the number num/den, d >= 1: the nearest
\* multiple of 10^-d (a tie goes to the larger magnitude), a "-" first when
\* the number is below zero, also when it rounds to zero.
ToFixed(num, den, d) ==
    LET p == Pow10(d)
        q == (2 * Abs(num) * p + den) \div (2 * den)
    IN  (IF num < 0 THEN <<"-">> ELSE <<>>)
        \o NatChars(q \div p) \o <<".">> \o PadChars(q % p, d)

-----------------------------------------------------------------------------
(* server.ts: POST /api/predict *)

Fair        == <<"F", "a", "i", "r">>
Good        == <<"G", "o", "o", "d">>
VeryGood    == <<"V", "e", "r", "y", " ", "G", "o", "o", "d">>
Constructor == <<"c", "o", "n", "s", "t", "r", "u", "c", "t", "o", "r">>
ToStringKey == <<"t", "o", "S", "t", "r", "i", "n", "g">>
ValueOfKey  == <<"v", "a", "l", "u", "e", "O", "f">>

\* property names every object literal inherits from Object.prototype
ObjectPrototypeKeys == {Constructor, ToStringKey, ValueOfKey}

\* drainageSystemMap[key]: the object literal's own entries, then the
\* members it inherits; any other key (a missing field is the key
\* "undefined") reads undefined
drainageSystemMap(key) ==
    CASE key.t = "string" /\ key.s = Fair     -> Num(1 * Scale)
      [] key.t = "string" /\ key.s = Good     -> Num(2 * Scale)
      [] key.t = "string" /\ key.s = VeryGood -> Num(3 * Scale)
      [] key.t = "string" /\ key.s \in ObjectPrototypeKeys -> ProtoMember
      [] OTHER -> Undefined

\* const drainageValue = drainageSystemMap[drainageSystem] || 2
drainageValue(drainageSystem) ==
    Or(drainageSystemMap(drainageSystem), Num(2 * Scale))

\* parseFloat(x) || 0
NumericField(x) == Or(ParseFloat(x), Num(0))

\* const input = [ ... ]
FeatureVector(body) ==
    << NumericField(body.rainfall),
       NumericField(body.altitude),
       NumericField(body.areaElevation),
       NumericField(body.roadElevation),
       drainageValue(body.drainageSystem) >>

\* flood probabilities are counted in units of 1/ProbDen
ProbDen == 1000 * 100

HighThreshold   == 70000
MediumThreshold == 40000
FloodHeuristic   == 85000
NoFloodHeuristic == 15000

\* (mutant) the Medium tier is lost: everything above 0.4 is High
riskLevelTwoTiers(floodProb) ==
    IF floodProb > MediumThreshold THEN "High" ELSE "Low"

\* floodProb > 0.7 ? "High" : floodProb > 0.4 ? "Medium" : "Low"
riskLevel(floodProb) ==
    IF floodProb > HighThreshold THEN "High"
    ELSE IF floodProb > MediumThreshold THEN "Medium"
    ELSE "Low"

\* the try/catch around rf.predictProbability: a throw gives the heuristic,
\* a value without a truthy entry [1] gives 0
floodProbOf(prediction, probability) ==
    CASE probability.kind = "throws" ->
             IF prediction = 1 THEN FloodHeuristic ELSE NoFloodHeuristic
      [] probability.kind = "value" -> probability.p
      [] OTHER -> 0

ErrorBody(msg) == [error |-> msg]

\* res.json({prediction, probability, riskLevel})
PredictionBody(prediction, floodProb) ==
    [ prediction  |-> IF prediction = 1 THEN "Flood Likely" ELSE "No Flood Expected",
      probability |-> ToFixed(floodProb * 100, ProbDen, 2),
      riskLevel   |-> riskLevel(floodProb) ]

\* The handler, given what the classifier does: predict is [threw, label],
\* probability is [kind, p]. A throw of rf.predict reaches the outer catch.
PredictResponse(body, predict, probability) ==
    IF predict.threw
    THEN [status |-> 500, body |-> ErrorBody("Failed to process prediction")]
    ELSE [status |-> 200,
          body |-> PredictionBody(predict.label,
                                  floodProbOf(predict.label, probability))]

\* ---- the requests and classifier answers the model draws from

Abc     == <<"a", "b", "c">>
Num12   == <<"1", "2">>
Num12abc == <<"1", "2", "a", "b", "c">>
OnePointFive == <<"1", ".", "5">>
BadKey  == <<"B", "a", "d">>

\* a numeric field of the body: missing, null, "", "abc", "12abc", "1.5"
FieldValues ==
    {Undefined, Null, Str(<<>>), Str(Abc), Str(Num12abc), Str(OnePointFive)}

RecognisedDrainage == {Str(Fair), Str(Good), Str(VeryGood)}

DrainageValues ==
    RecognisedDrainage
    \cup {Undefined, Str(<<>>), Str(BadKey), Str(Constructor)}

Bodies ==
    [rainfall : FieldValues, altitude : FieldValues, areaElevation : FieldValues,
     roadElevation : FieldValues, drainageSystem : DrainageValues]

NoBody == [rainfall |-> Undefined, altitude |-> Undefined, areaElevation |-> Undefined,
           roadElevation |-> Undefined, drainageSystem |-> Undefined]

\* probabilities the classifier may report: the ends of [0, 1] and those
\* within ProbWindow units of a threshold
ProbWindow == 6
Probabilities ==
    {0, ProbDen}
    \cup {p \in 0..ProbDen :
             \E c \in {MediumThreshold, HighThreshold} : Abs(p - c) <= ProbWindow}

NotCalled == [kind |-> "notCalled", p |-> 0]

\* rf.predictProbability([input])[0] and its entry [1]: the call throws, or
\* the value has no usable entry [1] (undefined), or entry [1] is a number
ProbabilityAnswers ==
    {[kind |-> "throws", p |-> 0], [kind |-> "noEntry", p |-> 0]}
    \cup {[kind |-> "value", p |-> p] : p \in Probabilities}

AllNumbers(vec) == \A i \in 1..Len(vec) : vec[i].t = "number"

\* rf.predict([input])[0]: a label for a numeric vector; what the library
\* does with a vector that holds a non-number is not fixed by this code
PredictAnswers(vec) ==
    {[threw |-> FALSE, label |-> l] : l \in {0, 1}}
    \cup (IF AllNumbers(vec) THEN {} ELSE {[threw |-> TRUE, label |-> 0]})

NoResponse == [status |-> 0, body |-> ErrorBody("")]
NoInput == <<>>

\* ---- actions

\* a client posts a body
PredictRequest ==
    /\ predictPc = "idle"
    /\ \E body \in Bodies : predictBody' = body
    /\ predictPc' = "pending"
    /\ UNCHANGED <<input, rfProbability, predictRes>>
    /\ UNCHANGED <<serverEnvVars, uiVars>>

\* app.post("/api/predict", ...) runs to its response
PredictHandle ==
    /\ predictPc = "pending"
    /\ LET vec == FeatureVector(predictBody) IN
       \E predict \in PredictAnswers(vec) :
       \E probability \in (IF predict.threw THEN {NotCalled} ELSE ProbabilityAnswers) :
          /\ input' = vec
          /\ rfProbability' = probability
          /\ predictRes' = PredictResponse(predictBody, predict, probability)
    /\ predictPc' = "responded"
    /\ UNCHANGED predictBody
    /\ UNCHANGED <<serverEnvVars, uiVars>>

\* the client takes the response
PredictReceive ==
    /\ predictPc = "responded"
    /\ predictPc' = "idle"
    /\ predictBody' = NoBody
    /\ input' = NoInput
    /\ rfProbability' = NotCalled
    /\ predictRes' = NoResponse
    /\ UNCHANGED <<serverEnvVars, uiVars>>

PredictInit ==
    /\ predictPc = "idle"
    /\ predictBody = NoBody
    /\ input = NoInput
    /\ rfProbability = NotCalled
    /\ predictRes = NoResponse

PredictNext ==
    \/ PredictRequest
    \/ PredictHandle
    \/ PredictReceive

-----------------------------------------------------------------------------
(* server.ts: GET /api/environmental-data *)

\* (mutant) only the latitude is checked
MissingCoordLatOnly(lat, lng) == ~Truthy(lat)

\* if (!lat || !lng)
MissingCoord(lat, lng) == ~Truthy(lat) \/ ~Truthy(lng)

\* An upstream call ends as [kind, value]: it "throws", answers "notOk"
\* (response.ok false), answers ok with a body that is not JSON ("badJson"),
\* or answers "ok" with a payload; value is what the handler's optional
\* chain reads from the payload (undefined when the path is missing).
Failed(answer) == answer.kind \in {"throws", "notOk"}

\* rainfall = weatherData.daily?.precipitation_sum?.[0] || 0, inside the
\* inner try: every other outcome leaves the initial 0
rainfallOf(answer) ==
    IF answer.kind = "ok" THEN Or(answer.value, Num(0)) ELSE Num(0)

\* altitude = elevationData.results?.[0]?.elevation || 0
altitudeOf(answer) ==
    IF answer.kind = "ok" THEN Or(answer.value, Num(0)) ELSE Num(0)

\* The GIS simulation and res.json: toFixed exists on numbers only, so a
\* truthy payload value that is not a number throws a TypeError into the
\* outer catch. areaJitter is Math.random() * 2 - 1 and roadJitter is
\* Math.random() * 0.5 - 0.25, in hundredths.
EnvResponse(rain, alt, areaJitter, roadJitter) ==
    IF rain.t # "number" \/ alt.t # "number"
    THEN [status |-> 500, body |-> ErrorBody("Failed to fetch environmental data")]
    ELSE [status |-> 200,
          body |-> [ rainfall      |-> ToFixed(rain.n, Scale, 1),
                     altitude      |-> ToFixed(alt.n, Scale, 1),
                     areaElevation |-> ToFixed(alt.n + areaJitter, Scale, 1),
                     roadElevation |-> ToFixed(alt.n + roadJitter, Scale, 1) ]]

\* the whole handler, given the two upstream answers and the two jitters
EnvServe(query, weather, elevation, areaJitter, roadJitter) ==
    IF MissingCoord(query.lat, query.lng)
    THEN [status |-> 400, body |-> ErrorBody("Latitude and longitude are required")]
    ELSE EnvResponse(rainfallOf(weather), altitudeOf(elevation), areaJitter, roadJitter)

\* ---- the requests and upstream answers the model draws from

Zero == <<"0">>
Lat27 == <<"2", "7", ".", "7">>
FivePointTwo == <<"5", ".", "2">>

\* a query parameter: absent, empty, "0", "27.7"
QueryValues == {Undefined, Str(<<>>), Str(Zero), Str(Lat27)}

\* payload values: missing, null, 0, 12.34, -0.03, the string "5.2"
PayloadValues ==
    {Undefined, Null, Num(0), Num(1234), Num(-3), Str(FivePointTwo)}

NoAnswer == [kind |-> "none", value |-> Undefined]

UpstreamAnswers ==
    {[kind |-> k, value |-> Undefined] : k \in {"throws", "notOk", "badJson"}}
    \cup {[kind |-> "ok", value |-> v] : v \in PayloadValues}

AreaJitters == {-100, -4, 0, 99}
RoadJitters == {-25, 0, 24}

NoQuery == [lat |-> Undefined, lng |-> Undefined]

\* ---- actions

\* a client sends the GET
EnvRequest ==
    /\ envPc = "idle"
    /\ \E lat \in QueryValues, lng \in QueryValues :
          envQuery' = [lat |-> lat, lng |-> lng]
    /\ envPc' = "pending"
    /\ UNCHANGED <<weatherAnswer, elevationAnswer, rainfall, altitude,
                   weatherCalls, elevationCalls, envSent, envRes>>
    /\ UNCHANGED <<serverPredictVars, uiVars>>

\* the handler up to its first await: the 400, or the precipitation call
EnvHandle ==
    /\ envPc = "pending"
    /\ IF MissingCoord(envQuery.lat, envQuery.lng)
       THEN /\ envRes' = EnvServe(envQuery, NoAnswer, NoAnswer, 0, 0)
            /\ envSent' = envSent + 1
            /\ envPc' = "responded"
            /\ UNCHANGED weatherCalls
       ELSE /\ weatherCalls' = weatherCalls + 1
            /\ envPc' = "awaitWeather"
            /\ UNCHANGED <<envRes, envSent>>
    /\ UNCHANGED <<envQuery, weatherAnswer, elevationAnswer, rainfall, altitude,
                   elevationCalls>>
    /\ UNCHANGED <<serverPredictVars, uiVars>>

\* the precipitation call ends; the elevation call is issued
WeatherReturn ==
    /\ envPc = "awaitWeather"
    /\ \E answer \in UpstreamAnswers :
          /\ weatherAnswer' = answer
          /\ rainfall' = rainfallOf(answer)
    /\ elevationCalls' = elevationCalls + 1
    /\ envPc' = "awaitElevation"
    /\ UNCHANGED <<envQuery, elevationAnswer, altitude, weatherCalls, envSent, envRes>>
    /\ UNCHANGED <<serverPredictVars, uiVars>>

\* the elevation call ends; the handler responds
ElevationReturn ==
    /\ envPc = "awaitElevation"
    /\ \E answer \in UpstreamAnswers, areaJitter \in AreaJitters, roadJitter \in RoadJitters :
          /\ elevationAnswer' = answer
          /\ altitude' = altitudeOf(answer)
          /\ envRes' = EnvServe(envQuery, weatherAnswer, answer, areaJitter, roadJitter)
    /\ envSent' = envSent + 1
    /\ envPc' = "responded"
    /\ UNCHANGED <<envQuery, weatherAnswer, rainfall, weatherCalls, elevationCalls>>
    /\ UNCHANGED <<serverPredictVars, uiVars>>

\* the client takes the response
EnvReceive ==
    /\ envPc = "responded"
    /\ envPc' = "idle"
    /\ envQuery' = NoQuery
    /\ weatherAnswer' = NoAnswer
    /\ elevationAnswer' = NoAnswer
    /\ rainfall' = Num(0)
    /\ altitude' = Num(0)
    /\ weatherCalls' = 0
    /\ elevationCalls' = 0
    /\ envSent' = 0
    /\ envRes' = NoResponse
    /\ UNCHANGED <<serverPredictVars, uiVars>>

EnvInit ==
    /\ envPc = "idle"
    /\ envQuery = NoQuery
    /\ weatherAnswer = NoAnswer
    /\ elevationAnswer = NoAnswer
    /\ rainfall = Num(0)
    /\ altitude = Num(0)
    /\ weatherCalls = 0
    /\ elevationCalls = 0
    /\ envSent = 0
    /\ envRes = NoResponse

EnvNext ==
    \/ EnvRequest
    \/ EnvHandle
    \/ WeatherReturn
    \/ ElevationReturn
    \/ EnvReceive

-----------------------------------------------------------------------------
(* App: the dashboard *)

Hour == 3600000
KathmanduLat == 27
KathmanduLng == 85
\* useState default of location (whole degrees)
Kathmandu == [lat |-> KathmanduLat, lng |-> KathmanduLng]

\* useState default of inputs
DefaultInputs ==
    [rainfall |-> Zero, altitude |-> Zero, areaElevation |-> Zero,
     roadElevation |-> Zero, drainageSystem |-> Good]

NullResult == Null
NoTime == [set |-> FALSE, at |-> 0]
NoItem == [present |-> FALSE, lat |-> 0, lng |-> 0, time |-> 0]

\* (mutant) latitude and longitude change places
StoredItemSwapped(lat, lng, time) ==
    [present |-> TRUE, lat |-> lng, lng |-> lat, time |-> time]

\* localStorage.setItem(key, JSON.stringify({ lat, lng, time }))
StoredItem(lat, lng, time) ==
    [present |-> TRUE, lat |-> lat, lng |-> lng, time |-> time]

EnvFieldNames == {"rainfall", "altitude", "areaElevation", "roadElevation"}

EnvFields(inp) ==
    [rainfall |-> inp.rainfall, altitude |-> inp.altitude,
     areaElevation |-> inp.areaElevation, roadElevation |-> inp.roadElevation]

\* (mutant) the four fields are spread over the inputs of the first render,
\* which the callback closed over, not over the current ones
ApplyEnvDataToFirstRender(prev, data) ==
    [DefaultInputs EXCEPT !.rainfall = data.rainfall,
                          !.altitude = data.altitude,
                          !.areaElevation = data.areaElevation,
                          !.roadElevation = data.roadElevation]

\* setInputs(prev => ({...prev, rainfall: ..., altitude: ..., areaElevation: ...,
\* roadElevation: ...}))
ApplyEnvData(prev, data) ==
    [prev EXCEPT !.rainfall = data.rainfall,
                 !.altitude = data.altitude,
                 !.areaElevation = data.areaElevation,
                 !.roadElevation = data.roadElevation]

\* the catch branch: four draws r of Math.random(), in hundredths
RandomFallback(r1, r2, r3, r4) ==
    [rainfall      |-> ToFixed(r1 * 50, Scale, 1),
     altitude      |-> ToFixed(r2 * 100, Scale, 1),
     areaElevation |-> ToFixed(r3 * 100, Scale, 1),
     roadElevation |-> ToFixed(r4 * 100, Scale, 1)]

\* the query of `/api/environmental-data?lat=${lat}&lng=${lng}`
EnvQueryOf(lat, lng) == [lat |-> Str(NatChars(lat)), lng |-> Str(NatChars(lng))]

\* JSON.stringify(inputs), as express.json() reads it
PredictBodyOf(inp) ==
    [rainfall |-> Str(inp.rainfall), altitude |-> Str(inp.altitude),
     areaElevation |-> Str(inp.areaElevation), roadElevation |-> Str(inp.roadElevation),
     drainageSystem |-> Str(inp.drainageSystem)]

NoArrival == [id |-> 0, lat |-> 0, lng |-> 0, ok |-> FALSE,
              data |-> EnvFields(DefaultInputs),
              drainageSystem |-> DefaultInputs.drainageSystem]

\* (mutant) an item exactly an hour old is stale too
StaleFromAnHour(item, t) == t - item.time >= Hour

\* Date.now() - time > 3600000
Stale(item, t) == t - item.time > Hour

RemoveAt(seq, i) == SubSeq(seq, 1, i - 1) \o SubSeq(seq, i + 1, Len(seq))

\* ---- bounds and the answers the model draws from

MaxFetches         == 2
MaxPredictInFlight == 2
MaxGeoPending      == 1
MaxSearchPending   == 1
MaxEdits           == 1

SessionStart == Hour + 1

GeoPlace    == [lat |-> 10, lng |-> 20]
SearchPlace == [lat |-> 30, lng |-> 40]
GeoCoords    == {GeoPlace}
SearchCoords == {SearchPlace}

\* what an earlier session may have left: nothing, or a coordinate stored
\* more than an hour or exactly an hour ago
InitialItems ==
    {NoItem}
    \cup {StoredItem(GeoPlace.lat, GeoPlace.lng, SessionStart - age) :
            age \in {Hour + 1, Hour}}

Five == <<"5">>
Query == <<"x">>
EditValues == {Five}
DrainageOptions == {Fair, Good, VeryGood}
SearchQueries == {<<>>, Query}

UIWeatherAnswers ==
    {[kind |-> "ok", value |-> Num(1234)]}
UIElevationAnswers ==
    {[kind |-> "ok", value |-> Num(-3)]}
Randoms == {37}

UIProbabilityAnswers ==
    {[kind |-> "throws", p |-> 0]}
UILabels == {1}

\* ---- fragments of the handlers

\* (mutant) a new call aborts the calls still in flight
StartFetchAborting(lat, lng) ==
    /\ fetchingData' = TRUE
    /\ envInFlight' = {[id |-> nextFetch, lat |-> lat, lng |-> lng]}
    /\ nextFetch' = nextFetch + 1

\* fetchAutoData(lat, lng) up to its await
StartFetch(lat, lng) ==
    /\ fetchingData' = TRUE
    /\ envInFlight' = envInFlight \cup {[id |-> nextFetch, lat |-> lat, lng |-> lng]}
    /\ nextFetch' = nextFetch + 1

\* handleEnableLocation(): getCurrentPosition when the browser has it
RequestPosition ==
    geoPending' = IF geolocationSupported THEN geoPending + 1 ELSE geoPending

CanFetch == nextFetch <= MaxFetches

\* ---- actions

\* the mount effect
Mount ==
    /\ ~mounted
    /\ mounted' = TRUE
    /\ IF stored.present
       THEN /\ location' = [lat |-> stored.lat, lng |-> stored.lng]
            /\ IF Stale(stored, now)
               THEN /\ RequestPosition
                    /\ UNCHANGED <<fetchingData, envInFlight, nextFetch>>
               ELSE /\ StartFetch(stored.lat, stored.lng)
                    /\ UNCHANGED geoPending
       ELSE /\ RequestPosition
            /\ UNCHANGED <<location, fetchingData, envInFlight, nextFetch>>
    /\ UNCHANGED <<geolocationSupported, searchQuery, inputs, result, loading,
                   lastUpdated, stored, now, predictInFlight, searchPending, edits,
                   resolved, lastArrival, untouched>>
    /\ UNCHANGED <<arrived, lastPredict>>
    /\ UNCHANGED <<serverPredictVars, serverEnvVars>>

\* the Enable Location button
EnableLocation ==
    /\ mounted
    /\ geoPending < MaxGeoPending
    /\ RequestPosition
    /\ UNCHANGED <<mounted, geolocationSupported, location, searchQuery, inputs, result,
                   loading, fetchingData, lastUpdated, stored, now, envInFlight,
                   nextFetch, predictInFlight, searchPending, edits,
                   resolved, lastArrival, untouched>>
    /\ UNCHANGED <<arrived, lastPredict>>
    /\ UNCHANGED <<serverPredictVars, serverEnvVars>>

\* getCurrentPosition's success callback
PositionFound ==
    /\ geoPending > 0
    /\ CanFetch
    /\ \E newLoc \in GeoCoords :
          /\ location' = newLoc
          /\ StartFetch(newLoc.lat, newLoc.lng)
    /\ geoPending' = geoPending - 1
    /\ resolved' = TRUE
    /\ UNCHANGED <<mounted, geolocationSupported, searchQuery, inputs, result, loading,
                   lastUpdated, stored, now, predictInFlight, searchPending, edits,
                   lastArrival, untouched>>
    /\ UNCHANGED <<arrived, lastPredict>>
    /\ UNCHANGED <<serverPredictVars, serverEnvVars>>

\* getCurrentPosition's error callback
PositionError ==
    /\ geoPending > 0
    /\ geoPending' = geoPending - 1
    /\ UNCHANGED <<mounted, geolocationSupported, location, searchQuery, inputs, result,
                   loading, fetchingData, lastUpdated, stored, now, envInFlight,
                   nextFetch, predictInFlight, searchPending, edits,
                   resolved, lastArrival, untouched>>
    /\ UNCHANGED <<arrived, lastPredict>>
    /\ UNCHANGED <<serverPredictVars, serverEnvVars>>

\* typing in the search box
SetSearchQuery ==
    /\ mounted
    /\ \E q \in SearchQueries : q # searchQuery /\ searchQuery' = q
    /\ UNCHANGED <<mounted, geolocationSupported, location, inputs, result,
                   loading, fetchingData, lastUpdated, stored, now, envInFlight,
                   nextFetch, predictInFlight, geoPending, searchPending, edits,
                   resolved, lastArrival, untouched>>
    /\ UNCHANGED <<arrived, lastPredict>>
    /\ UNCHANGED <<serverPredictVars, serverEnvVars>>

\* handleSearch up to its await: an empty query returns at once
SubmitSearch ==
    /\ mounted
    /\ searchPending < MaxSearchPending
    /\ searchPending' = IF searchQuery = <<>> THEN searchPending ELSE searchPending + 1
    /\ UNCHANGED <<mounted, geolocationSupported, location, searchQuery, inputs, result,
                   loading, fetchingData, lastUpdated, stored, now, envInFlight,
                   nextFetch, predictInFlight, geoPending, edits,
                   resolved, lastArrival, untouched>>
    /\ UNCHANGED <<arrived, lastPredict>>
    /\ UNCHANGED <<serverPredictVars, serverEnvVars>>

\* handleSearch after its awaits: the geocoder found a place
SearchFound ==
    /\ searchPending > 0
    /\ CanFetch
    /\ \E newLoc \in SearchCoords :
          /\ location' = newLoc
          /\ StartFetch(newLoc.lat, newLoc.lng)
    /\ searchPending' = searchPending - 1
    /\ resolved' = TRUE
    /\ UNCHANGED <<mounted, geolocationSupported, searchQuery, inputs, result, loading,
                   lastUpdated, stored, now, predictInFlight, geoPending, edits,
                   lastArrival, untouched>>
    /\ UNCHANGED <<arrived, lastPredict>>
    /\ UNCHANGED <<serverPredictVars, serverEnvVars>>

\* handleSearch after its awaits: the request threw, or no place was found
SearchNothing ==
    /\ searchPending > 0
    /\ searchPending' = searchPending - 1
    /\ UNCHANGED <<mounted, geolocationSupported, location, searchQuery, inputs, result,
                   loading, fetchingData, lastUpdated, stored, now, envInFlight,
                   nextFetch, predictInFlight, geoPending, edits,
                   resolved, lastArrival, untouched>>
    /\ UNCHANGED <<arrived, lastPredict>>
    /\ UNCHANGED <<serverPredictVars, serverEnvVars>>

\* the refresh button: fetchAutoData(location.lat, location.lng)
Refresh ==
    /\ mounted
    /\ CanFetch
    /\ StartFetch(location.lat, location.lng)
    /\ UNCHANGED <<mounted, geolocationSupported, location, searchQuery, inputs, result,
                   loading, lastUpdated, stored, now, predictInFlight, geoPending,
                   searchPending, edits, resolved, lastArrival, untouched>>
    /\ UNCHANGED <<arrived, lastPredict>>
    /\ UNCHANGED <<serverPredictVars, serverEnvVars>>

\* fetchAutoData after its await, for the call f: the request throws, or the
\* endpoint answers; a status other than 200 throws too. try, catch, finally.
FetchAutoDataReturn(f) ==
    /\ f \in envInFlight
    /\ \E threw \in BOOLEAN, weather \in UIWeatherAnswers, elevation \in UIElevationAnswers,
          r \in Randoms :
          LET response == EnvServe(EnvQueryOf(f.lat, f.lng), weather, elevation, 0, 0)
              ok       == ~threw /\ response.status = 200
              data     == IF ok THEN response.body ELSE RandomFallback(r, r, r, r)
          IN  /\ inputs' = ApplyEnvData(inputs, data)
              /\ lastUpdated' = IF ok THEN [set |-> TRUE, at |-> now] ELSE lastUpdated
              /\ stored' = IF ok THEN StoredItem(f.lat, f.lng, now) ELSE stored
              /\ lastArrival' = [id |-> f.id, lat |-> f.lat, lng |-> f.lng,
                                 ok |-> ok, data |-> data,
                                 drainageSystem |-> inputs.drainageSystem]
    /\ fetchingData' = FALSE
    /\ envInFlight' = envInFlight \ {f}
    /\ arrived' = arrived \cup {f.id}
    /\ untouched' = TRUE
    /\ UNCHANGED <<mounted, geolocationSupported, location, searchQuery, result, loading,
                   now, nextFetch, predictInFlight, geoPending, searchPending, edits,
                   resolved>>
    /\ UNCHANGED <<lastPredict>>
    /\ UNCHANGED <<serverPredictVars, serverEnvVars>>

FetchReturn == \E f \in envInFlight : FetchAutoDataReturn(f)

\* onChange of one of the four number inputs
EditField ==
    /\ mounted
    /\ edits < MaxEdits
    /\ \E name \in EnvFieldNames, value \in EditValues :
          inputs' = [inputs EXCEPT ![name] = value]
    /\ edits' = edits + 1
    /\ untouched' = FALSE
    /\ UNCHANGED <<mounted, geolocationSupported, location, searchQuery, result,
                   loading, fetchingData, lastUpdated, stored, now, envInFlight,
                   nextFetch, predictInFlight, geoPending, searchPending,
                   resolved, lastArrival>>
    /\ UNCHANGED <<arrived, lastPredict>>
    /\ UNCHANGED <<serverPredictVars, serverEnvVars>>

\* onChange of the drainage select
EditDrainage ==
    /\ mounted
    /\ edits < MaxEdits
    /\ \E value \in DrainageOptions :
          /\ value # inputs.drainageSystem
          /\ inputs' = [inputs EXCEPT !.drainageSystem = value]
    /\ edits' = edits + 1
    /\ UNCHANGED <<mounted, geolocationSupported, location, searchQuery, result,
                   loading, fetchingData, lastUpdated, stored, now, envInFlight,
                   nextFetch, predictInFlight, geoPending, searchPending,
                   resolved, lastArrival, untouched>>
    /\ UNCHANGED <<arrived, lastPredict>>
    /\ UNCHANGED <<serverPredictVars, serverEnvVars>>

\* (mutant) the button is disabled while fetchingData only
RunAnalysisEnabledWhileLoading == ~fetchingData

\* the Run Analysis button is disabled while loading || fetchingData
RunAnalysisEnabled == ~(loading \/ fetchingData)

\* handlePredict up to its await
RunAnalysis ==
    /\ mounted
    /\ RunAnalysisEnabled
    /\ Len(predictInFlight) < MaxPredictInFlight
    /\ loading' = TRUE
    /\ predictInFlight' = Append(predictInFlight, PredictBodyOf(inputs))
    /\ lastPredict' = "none"
    /\ UNCHANGED <<mounted, geolocationSupported, location, searchQuery, inputs, result,
                   fetchingData, lastUpdated, stored, now, envInFlight,
                   nextFetch, geoPending, searchPending, edits,
                   resolved, lastArrival, untouched>>
    /\ UNCHANGED <<arrived>>
    /\ UNCHANGED <<serverPredictVars, serverEnvVars>>

\* (mutant) setLoading(false) at the end of the try block, not in a finally
HandlePredictReturnWithoutFinally(i) ==
    /\ i \in 1..Len(predictInFlight)
    /\ LET body == predictInFlight[i] IN
       \E threw \in BOOLEAN, predict \in PredictAnswers(FeatureVector(body)),
          probability \in UIProbabilityAnswers :
          LET response == PredictResponse(body, predict, probability) IN
          /\ predict.label \in UILabels
          /\ result' = IF threw THEN result ELSE response.body
          /\ lastPredict' = IF threw \/ response.status # 200 THEN "failed" ELSE "ok"
          /\ loading' = IF threw THEN loading ELSE FALSE
    /\ predictInFlight' = RemoveAt(predictInFlight, i)
    /\ UNCHANGED <<mounted, geolocationSupported, location, searchQuery, inputs,
                   fetchingData, lastUpdated, stored, now, envInFlight,
                   nextFetch, geoPending, searchPending, edits,
                   resolved, lastArrival, untouched>>
    /\ UNCHANGED <<arrived>>
    /\ UNCHANGED <<serverPredictVars, serverEnvVars>>

\* handlePredict after its awaits, for the i-th request in flight: fetch or
\* response.json() throws, or the endpoint's body becomes the result,
\* whatever its status
HandlePredictReturn(i) ==
    /\ i \in 1..Len(predictInFlight)
    /\ LET body == predictInFlight[i] IN
       \E threw \in BOOLEAN, predict \in PredictAnswers(FeatureVector(body)),
          probability \in UIProbabilityAnswers :
          LET response == PredictResponse(body, predict, probability) IN
          /\ predict.label \in UILabels
          /\ result' = IF threw THEN result ELSE response.body
          /\ lastPredict' = IF threw \/ response.status # 200 THEN "failed" ELSE "ok"
    /\ loading' = FALSE
    /\ predictInFlight' = RemoveAt(predictInFlight, i)
    /\ UNCHANGED <<mounted, geolocationSupported, location, searchQuery, inputs,
                   fetchingData, lastUpdated, stored, now, envInFlight,
                   nextFetch, geoPending, searchPending, edits,
                   resolved, lastArrival, untouched>>
    /\ UNCHANGED <<arrived>>
    /\ UNCHANGED <<serverPredictVars, serverEnvVars>>

PredictReturn == \E i \in 1..Len(predictInFlight) : HandlePredictReturn(i)

\* a request leaves predictInFlight: within the dashboard's steps these are
\* the steps of PredictReturn, and one is possible whenever a request is in
\* flight
PredictSettles ==
    \E i \in 1..Len(predictInFlight) : predictInFlight' = RemoveAt(predictInFlight, i)

\* the component as constructed, before its mount effect, in a browser that
\* holds item under the key and has geolocation or not
UIConstructed(item, geo) ==
    /\ mounted = FALSE
    /\ geolocationSupported = geo
    /\ location = Kathmandu
    /\ searchQuery = <<>>
    /\ inputs = DefaultInputs
    /\ result = NullResult
    /\ loading = FALSE
    /\ fetchingData = FALSE
    /\ lastUpdated = NoTime
    /\ stored = item
    /\ now = SessionStart
    /\ envInFlight = {}
    /\ nextFetch = 1
    /\ predictInFlight = <<>>
    /\ geoPending = 0
    /\ searchPending = 0
    /\ edits = 0
    /\ resolved = FALSE
    /\ lastArrival = NoArrival
    /\ untouched = TRUE
    /\ arrived = {}
    /\ lastPredict = "none"

UIInit == \E item \in InitialItems, geo \in BOOLEAN : UIConstructed(item, geo)

UINext ==
    \/ Mount
    \/ EnableLocation
    \/ PositionFound
    \/ PositionError
    \/ SetSearchQuery
    \/ SubmitSearch
    \/ SearchFound
    \/ SearchNothing
    \/ Refresh
    \/ FetchReturn
    \/ EditField
    \/ EditDrainage
    \/ RunAnalysis
    \/ PredictReturn

\* the handlers that locate the user and fetch the environmental data, and the
\* edits of the fields a fetch overwrites; what is left out (handlePredict and
\* the drainage selector) writes only loading, result and drainageSystem, which
\* none of these handlers reads
LocationNext ==
    \/ Mount
    \/ EnableLocation
    \/ PositionFound
    \/ PositionError
    \/ SetSearchQuery
    \/ SubmitSearch
    \/ SearchFound
    \/ SearchNothing
    \/ Refresh
    \/ FetchReturn
    \/ EditField

\* the handlers that decide when Run Analysis may start and what it sends:
\* the mount effect, the refresh button, the return of fetchAutoData, the
\* edits of the form, and handlePredict; what is left out (geolocation and
\* search) reaches the rest of the state only through fetchAutoData
AnalysisNext ==
    \/ Mount
    \/ Refresh
    \/ FetchReturn
    \/ EditField
    \/ EditDrainage
    \/ RunAnalysis
    \/ PredictReturn

ServerInit == PredictInit /\ EnvInit

-----------------------------------------------------------------------------
(* Properties of POST /api/predict *)

Responded == predictPc = "responded"

\* the string is a decimal literal from end to end
IsNumericString(s) ==
    LET t == TrimStart(s)
        p == DecimalPrefix(t)
    IN  p.ok /\ p.end = Len(t) + 1

\* missing, null, or a string that is not a number ("", "abc", "12abc")
NonNumeric(v) == v.t # "number" /\ (v.t = "string" => ~IsNumericString(v.s))

NumericFieldsOf(body) ==
    <<body.rainfall, body.altitude, body.areaElevation, body.roadElevation>>

\* the returned probability, in hundredths of a percent
ReturnedPercent == ParseFloatStr(predictRes.body.probability).n

\* a probability threshold as a percentage, in hundredths of a percent
Percent(threshold) == (threshold * 100 * Scale) \div ProbDen

\* C1: every drainageSystem other than "Fair", "Good", "Very Good" (missing,
\* empty, any other string, the name of an inherited property) puts the code
\* 2 in the fifth feature, and the request does not end in an error status.
C1_UnrecognisedDrainageIsGood ==
    (Responded /\ predictBody.drainageSystem \notin RecognisedDrainage)
        => (input[5] = Num(2 * Scale) /\ predictRes.status = 200)

\* C2: every non-numeric value of rainfall, altitude, areaElevation or
\* roadElevation (missing, "", "abc", "12abc", null) is 0 in the feature
\* vector, and the request is not failed because of it.
C2_NonNumericIsZero ==
    Responded =>
        /\ \A i \in 1..4 :
              NonNumeric(NumericFieldsOf(predictBody)[i]) => input[i] = Num(0)
        /\ input[5].t = "number" => predictRes.status = 200

\* C3 as stated: in every 200 response riskLevel is "High" when the returned
\* probability is > 70, "Medium" when it is > 40 and <= 70, "Low" when <= 40.
C3_RiskAgreesWithReturnedProbability ==
    (Responded /\ predictRes.status = 200) =>
        predictRes.body.riskLevel =
            IF ReturnedPercent > Percent(HighThreshold) THEN "High"
            ELSE IF ReturnedPercent > Percent(MediumThreshold) THEN "Medium"
            ELSE "Low"

\* C3 as amended: riskLevel comes from the unrounded probability, so in every
\* 200 response it is "High" when the returned probability is > 70, "Medium"
\* when it is strictly between 40 and 70, "Low" when it is < 40; a returned
\* "70.00" goes with "High" or "Medium", a returned "40.00" with "Medium" or
\* "Low".
C3_RiskAgreesUpToRounding ==
    (Responded /\ predictRes.status = 200) =>
        LET p    == ReturnedPercent
            risk == predictRes.body.riskLevel
            hi   == Percent(HighThreshold)
            mid  == Percent(MediumThreshold)
        IN  /\ p > hi => risk = "High"
            /\ p = hi => risk \in {"High", "Medium"}
            /\ (mid < p /\ p < hi) => risk = "Medium"
            /\ p = mid => risk \in {"Medium", "Low"}
            /\ p < mid => risk = "Low"

\* a response whose probability reads "70.00" and whose riskLevel is "High"
C3_Witness ==
    /\ Responded
    /\ predictRes.status = 200
    /\ ReturnedPercent = Percent(HighThreshold)
    /\ predictRes.body.riskLevel = "High"

\* C7: whenever the estimator gives no class probability (the call throws,
\* or its value has no usable flood-class entry), the response is a 200
\* carrying the heuristic 0.85 and "High" for a flood label, 0.15 and "Low"
\* otherwise.
C7_HeuristicWhenNoProbability ==
    (Responded /\ rfProbability.kind \in {"throws", "noEntry"}) =>
        /\ predictRes.status = 200
        /\ IF predictRes.body.prediction = "Flood Likely"
           THEN /\ predictRes.body.probability = ToFixed(FloodHeuristic * 100, ProbDen, 2)
                /\ predictRes.body.riskLevel = "High"
           ELSE /\ predictRes.body.probability = ToFixed(NoFloodHeuristic * 100, ProbDen, 2)
                /\ predictRes.body.riskLevel = "Low"

-----------------------------------------------------------------------------
(* Properties of GET /api/environmental-data *)

\* a query parameter that is absent or empty
AbsentOrEmpty(v) == v.t = "undefined" \/ (v.t = "string" /\ v.s = <<>>)

\* the request lacks lat or lng
EnvMissing == AbsentOrEmpty(envQuery.lat) \/ AbsentOrEmpty(envQuery.lng)

ZeroPointZero == <<"0", ".", "0">>

\* [-] digits . digit
IsDecimalString(s) ==
    LET p == DecimalPrefix(s)
    IN  p.ok /\ p.end = Len(s) + 1 /\ p.i1 > p.i0 /\ p.nFrac = 1

\* C4: a request without lat or without lng (absent or empty) gets status
\* 400, exactly one response, and neither upstream call.
C4_MissingCoordinateIs400 ==
    (envPc # "idle" /\ EnvMissing) =>
        /\ weatherCalls = 0
        /\ elevationCalls = 0
        /\ \/ envPc = "pending" /\ envSent = 0
           \/ envPc = "responded" /\ envSent = 1 /\ envRes.status = 400

\* a 400 was sent for a request that carries lat and no lng
C4_Witness ==
    /\ envPc = "responded"
    /\ Truthy(envQuery.lat)
    /\ ~Truthy(envQuery.lng)
    /\ envRes.status = 400

\* C5: with lat and lng present, a failed precipitation call (throw or
\* non-success) still gives status 200 with rainfall "0.0" and the elevation
\* call issued; a failed elevation call gives status 200 with altitude "0.0";
\* the failure of one call leaves the other call's field as that call gave it.
C5_UpstreamFailureIsZero ==
    (envPc = "responded" /\ ~EnvMissing) =>
        /\ Failed(weatherAnswer) =>
              /\ elevationCalls = 1
              /\ envRes.status = 200
              /\ envRes.body.rainfall = ZeroPointZero
              /\ envRes.body.altitude = ToFixed(altitude.n, Scale, 1)
        /\ Failed(elevationAnswer) =>
              /\ envRes.status = 200
              /\ envRes.body.altitude = ZeroPointZero
              /\ envRes.body.rainfall = ToFixed(rainfall.n, Scale, 1)

\* C6: a missing coordinate is the only cause of an error status: whatever
\* the two upstream calls do, a request with lat and lng gets status 200 and
\* four decimal strings.
C6_OnlyMissingCoordinateFails ==
    (envPc = "responded" /\ ~EnvMissing) =>
        /\ envRes.status = 200
        /\ IsDecimalString(envRes.body.rainfall)
        /\ IsDecimalString(envRes.body.altitude)
        /\ IsDecimalString(envRes.body.areaElevation)
        /\ IsDecimalString(envRes.body.roadElevation)

-----------------------------------------------------------------------------
(* Properties of the dashboard *)

\* no request of the dashboard is in flight
Quiescent ==
    /\ envInFlight = {}
    /\ predictInFlight = <<>>
    /\ geoPending = 0
    /\ searchPending = 0

StoredCoord == [lat |-> stored.lat, lng |-> stored.lng]

\* { prediction, probability, riskLevel }
IsPredictionObject(r) == DOMAIN r = {"prediction", "probability", "riskLevel"}

\* C8: after a Run Analysis whose request fails (the fetch throws, or the
\* server answers its 500 body) the UI holds no result, also when an earlier
\* prediction had succeeded; the result is always null or a complete
\* prediction object.
C8_FailedPredictionLeavesNoResult ==
    /\ lastPredict = "failed" => result = NullResult
    /\ result = NullResult \/ IsPredictionObject(result)

C10_ArrivalOrderWins ==
    /\ {f.id : f \in envInFlight} \cup arrived = 1..(nextFetch - 1)
    /\ lastArrival.id # 0 =>
          /\ untouched => EnvFields(inputs) = lastArrival.data
          /\ lastArrival.ok =>
                (stored.present /\ StoredCoord = [lat |-> lastArrival.lat,
                                                   lng |-> lastArrival.lng])

\* A was issued for a, B later for b # a, B arrived first, then A: nothing is
\* in flight, the location is b, the inputs and the persisted coordinate are
\* A's
C10_Witness ==
    /\ envInFlight = {}
    /\ lastArrival.ok
    /\ lastArrival.id < nextFetch - 1
    /\ (nextFetch - 1) \in arrived
    /\ location # [lat |-> lastArrival.lat, lng |-> lastArrival.lng]
    /\ EnvFields(inputs) = lastArrival.data
    /\ StoredCoord = [lat |-> lastArrival.lat, lng |-> lastArrival.lng]

-----------------------------------------------------------------------------
(* Properties of Run Analysis *)

\* C11: every Run Analysis leaves the spinner state: loading is true exactly
\* while a prediction request is in flight, so it is false once the request
\* has completed, whether it answered or threw; and a loading dashboard
\* eventually stops loading.
C11_SpinnerEnds ==
    /\ [](loading <=> predictInFlight # <<>>)
    /\ (loading ~> ~loading)

\* a prediction request threw and the spinner is off
C11_Witness ==
    /\ lastPredict = "failed"
    /\ predictInFlight = <<>>
    /\ ~loading

-----------------------------------------------------------------------------
(* Properties of the mount effect *)

\* the mount effect runs in this step
Mounting == ~mounted /\ mounted'

\* there is no stored location, or its timestamp is more than an hour old
NothingRecentStored == ~stored.present \/ now - stored.time > Hour

\* getCurrentPosition is called in this step
GeolocationRequested == geoPending' = geoPending + 1

\* what the mount effect does whatever the browser: with a stored location
\* the UI location becomes the stored coordinate, a recent one is fetched for
\* without asking for the position, and a failed position request issues no
\* fetch
MountRestores ==
    /\ Mounting /\ stored.present =>
          location' = [lat |-> stored.lat, lng |-> stored.lng]
    /\ Mounting /\ ~NothingRecentStored =>
          /\ ~GeolocationRequested
          /\ envInFlight' = {[id |-> nextFetch, lat |-> stored.lat, lng |-> stored.lng]}
    /\ Mounting /\ NothingRecentStored => UNCHANGED <<envInFlight, nextFetch>>
    /\ PositionError => UNCHANGED <<envInFlight, nextFetch, fetchingData>>

\* C12 (as claimed): on mount, geolocation is requested exactly when there is
\* no stored location or the stored timestamp is more than an hour old; a
\* location stored at most an hour ago is fetched for without geolocation; in
\* both stored cases the UI location is first set to the stored coordinate;
\* a failed geolocation issues no fetch.
C12_MountRequestsGeolocation ==
    [][/\ MountRestores
       /\ Mounting => (GeolocationRequested <=> NothingRecentStored)]_vars

\* C12 (amended): the same, where geolocation is requested exactly when, in
\* addition, the browser has navigator.geolocation.
C12_MountRequestsGeolocationIfSupported ==
    [][/\ MountRestores
       /\ Mounting => (GeolocationRequested <=>
                          (NothingRecentStored /\ geolocationSupported))]_vars

\* mounted with a location stored exactly an hour ago: no position request,
\* one fetch in flight for the stored coordinate, the UI location on it
C12_Witness ==
    /\ mounted
    /\ stored.present
    /\ now - stored.time = Hour
    /\ geoPending = 0
    /\ nextFetch = 2
    /\ envInFlight = {[id |-> 1, lat |-> stored.lat, lng |-> stored.lng]}
    /\ location = [lat |-> stored.lat, lng |-> stored.lng]
    /\ fetchingData

-----------------------------------------------------------------------------
(* Properties of the fetchingData flag *)

\* C13: whenever an environmental-data request is in flight, fetchingData is
\* true, and so the Run Analysis button is disabled and cannot start a
\* prediction.
C13_FetchingWhileInFlight ==
    envInFlight # {} => (fetchingData /\ ~RunAnalysisEnabled)

-----------------------------------------------------------------------------
(* Properties of the completion of fetchAutoData *)

\* a call of fetchAutoData completes in this step
FetchCompletes == arrived' # arrived

\* C14: the completion of an environmental fetch, successful or not, puts its
\* data in the four environmental fields and leaves drainageSystem, the
\* location and the prediction result as they were; the failure path also
\* leaves the persisted item and lastUpdated as they were.
C14_FetchReplacesOnlyEnvFields ==
    [][FetchCompletes =>
          /\ EnvFields(inputs') = lastArrival'.data
          /\ inputs'.drainageSystem = inputs.drainageSystem
          /\ location' = location
          /\ result' = result
          /\ ~lastArrival'.ok => (stored' = stored /\ lastUpdated' = lastUpdated)]_vars

\* the fetch the mount effect issued for a recently stored location failed
\* after the user had changed the drainage system while it was in flight: the
\* choice is still there, the fallback values are in the four fields, the
\* item is as stored and lastUpdated is not set
C14_Witness ==
    /\ arrived = {1}
    /\ nextFetch = 2
    /\ ~lastArrival.ok
    /\ stored.present
    /\ now - stored.time = Hour
    /\ lastArrival.drainageSystem # DefaultInputs.drainageSystem
    /\ inputs.drainageSystem = lastArrival.drainageSystem
    /\ EnvFields(inputs) = lastArrival.data
    /\ lastUpdated = NoTime

-----------------------------------------------------------------------------
(* Properties of the Run Analysis button *)

\* a prediction request starts in this step
PredictionStarts == Len(predictInFlight') > Len(predictInFlight)

\* C15: at most one prediction request is in flight at any time: a prediction
\* starts only with loading and fetchingData false and none in flight, and
\* sets loading, which stays true until that request completes; so the
\* response that sets the result is that of the only request in flight.
C15_OnePredictionInFlight ==
    /\ [](Len(predictInFlight) <= 1)
    /\ [][/\ PredictionStarts =>
                (~loading /\ ~fetchingData /\ predictInFlight = <<>> /\ loading')
          /\ (loading /\ ~loading') => (predictInFlight # <<>> /\ predictInFlight' = <<>>)
          /\ result' # result => (Len(predictInFlight) = 1 /\ predictInFlight' = <<>>)]_vars

\* a prediction is in flight after an earlier one was answered
C15_Witness ==
    /\ loading
    /\ Len(predictInFlight) = 1
    /\ result # NullResult
    /\ lastPredict = "none"

-----------------------------------------------------------------------------
\* the server started, and the dashboard not opened
Init == ServerInit /\ UIConstructed(NoItem, TRUE)

\* the server started, and the dashboard constructed in any browser
InitUI == ServerInit /\ UIInit

\* the prediction endpoint alone
SpecPredict == Init /\ [][PredictNext]_vars

\* the environmental-data endpoint alone
SpecEnv == Init /\ [][EnvNext]_vars

\* the dashboard, served by the two endpoints
SpecUI == InitUI /\ [][UINext]_vars

\* the dashboard's form and Run Analysis
SpecAnalysis == InitUI /\ [][AnalysisNext]_vars

\* the same, where a prediction request in flight settles: the promise of
\* fetch resolves or rejects, and the continuation of handlePredict then runs
SpecAnalysisLive == SpecAnalysis /\ WF_predictInFlight(PredictSettles)

\* the dashboard's location and auto-detection handlers
SpecLocation == InitUI /\ [][LocationNext]_vars

====
